---- MODULE Spec2Model ----
(***************************************************************************)
(* State-machine model of the Sphero v1 packet codec (src/src/packet.rs),  *)
(* the command builders (src/src/command.rs) and the notification decode   *)
(* loop of the SPRK+ example (src/examples/sprk.rs).                       *)
(*                                                                         *)
(* Bytes are naturals 0..255.  Enumerations are represented by their wire  *)
(* id (the `as u8` value).  The derive(DekuRead, DekuWrite) code is        *)
(* modelled by what it does for the declared field attributes: fields are  *)
(* read and written in declaration order, an enum field fails to parse on  *)
(* an id that no variant declares, `count` reads exactly that many         *)
(* elements, a read past the end of the buffer is Incomplete, integers     *)
(* without an `endian` attribute use the target's byte order, and          *)
(* `update` expressions run only in update(), never while reading.         *)
(***************************************************************************)
EXTENDS Integers, Sequences, FiniteSets, TLC

(***************************************************************************)
(* Bounds of the model.                                                    *)
(***************************************************************************)
\* payloads of every length 0..MaxShortLen over SampleBytes are enumerated
MaxShortLen == 2
\* inbound buffers carry 0..MaxShortBody bytes after the five header bytes
MaxShortBody == 3
\* data-length bytes 0..MaxDlen appear in inbound headers
MaxDlen == 3

(***************************************************************************)
(* Program constants.                                                      *)
(***************************************************************************)
SOP1_All == 255
SOP2_Response == 255
SOP2_Async == 254
DeviceID_Core == 0
DeviceID_Bootloader == 1
DeviceID_Sphero == 2
CoreCommandID_Ping == 1
CoreCommandID_GetVersioningInformation == 2
CoreCommandID_GetBluetoothInfo == 17
SpheroCommandID_SetDataStreaming == 17
SpheroCommandID_SetRGBLEDOutput == 32
SpheroCommandID_SetBackLEDOutput == 33
SpheroCommandID_Roll == 48

U8 == 0..255
SOP1Field == {SOP1_All}
\* mutant of SOP2Field: a catch-all variant, every second marker is accepted
SOP2Field_AnyByte == 0..255
SOP2Field == {SOP2_Response, SOP2_Async}
MRSPField == {0} \cup (1..9) \cup (49..53)
DeviceID == {DeviceID_Core, DeviceID_Bootloader, DeviceID_Sphero}

(***************************************************************************)
(* Sample values the inputs are drawn from.                                *)
(***************************************************************************)
SampleBytes == {0, 1, 255}
SampleSeqs == {0, 1, 255}

RECURSIVE SeqsUpTo(_, _)
SeqsUpTo(S, n) ==
  IF n = 0 THEN {<<>>}
  ELSE LET shorter == SeqsUpTo(S, n - 1)
       IN  shorter \cup {Append(s, x) : s \in {t \in shorter : Len(t) = n - 1}, x \in S}

LongPayload(n) == [i \in 1..n |-> (7 * i + 3) % 256]
ShortPayloads == SeqsUpTo(SampleBytes, MaxShortLen)

(***************************************************************************)
(* Build parameters and program state.                                     *)
(*   target_endian    byte order of the compilation target                 *)
(*   overflow_checks  TRUE: arithmetic overflow panics (debug profile),    *)
(*                    FALSE: it wraps (release profile)                    *)
(*   arg              the arguments of the last constructor or builder call *)
(*   pkt              the packet value last constructed, or NoPacket       *)
(*   wire             the byte buffer last serialized or received          *)
(*   res              the value returned by the last operation             *)
(*   op               the operation that ran last                          *)
(***************************************************************************)
VARIABLES target_endian, overflow_checks, arg, pkt, wire, res, op

vars == <<target_endian, overflow_checks, arg, pkt, wire, res, op>>
build == <<target_endian, overflow_checks>>

NoArg == [cmd |-> "none"]
NoPacket == [shape |-> "none"]
NoResult == [tag |-> "None"]
Panic == [tag |-> "Panic"]
Aborted == [shape |-> "panic"]
Err(kind) == [tag |-> "Err", kind |-> kind]
Ok(p, rest) == [tag |-> "Ok", pkt |-> p, rest |-> rest]

(***************************************************************************)
(* calculate_checksum: fold(0u8, wrapping_add) over fields then data, then *)
(* bitwise NOT.                                                            *)
(***************************************************************************)
\* mutant of wrapping_add: the sum saturates at 255
wrapping_add_Saturating(acc, x) == IF acc + x > 255 THEN 255 ELSE acc + x
wrapping_add(acc, x) == (acc + x) % 256

\* the left fold of wrapping_add over s[lo..hi] starting from the u8 acc; the
\* range is split in two so that the evaluation depth stays logarithmic, the
\* bytes are still added one by one from left to right (the test on acc makes
\* the accumulator a value before the fold goes on)
RECURSIVE FoldRange(_, _, _, _)
FoldRange(s, lo, hi, acc) ==
  IF acc \notin U8 \/ lo > hi THEN acc
  ELSE IF lo = hi THEN wrapping_add(acc, s[lo])
  ELSE LET mid == (lo + hi) \div 2
       IN  FoldRange(s, mid + 1, hi, FoldRange(s, lo, mid, acc))

Not8(x) == 255 - x

calculate_checksum(fields, data) ==
  Not8(FoldRange(data, 1, Len(data), FoldRange(fields, 1, Len(fields), 0)))

(***************************************************************************)
(* SpheroCommandPacketV1::new.  `data.len() as u8` truncates, `+ 1` on u8  *)
(* overflows at 255: a panic with overflow checks, a wrap to 0 without.    *)
(***************************************************************************)
\* mutant of LenAsU8PlusOne: the "+ 1" is forgotten
LenAsU8PlusOne_NoPlusOne(data, oc) == Len(data) % 256

LenAsU8PlusOne(data, oc) ==
  LET l == Len(data) % 256
  IN  IF l = 255 THEN (IF oc THEN -1 ELSE 0) ELSE l + 1

SpheroCommandPacketV1_new(did, sid, seq, data, oc) ==
  LET dlen == LenAsU8PlusOne(data, oc)
  IN  IF dlen = -1 THEN Aborted
      ELSE [shape |-> "command",
            sop1 |-> SOP1_All,
            sop2 |-> SOP2_Response,
            did |-> did,
            cid |-> sid,
            seq |-> seq,
            dlen |-> dlen,
            data |-> data,
            chk |-> calculate_checksum(<<did, sid, seq, dlen>>, data)]

(***************************************************************************)
(* DekuWrite: to_bytes writes the fields in declaration order; it does not *)
(* run the update expressions.  A u16 without an endian attribute is       *)
(* written in the target's byte order.                                     *)
(***************************************************************************)
WriteU16(v, endian) ==
  IF endian = "big" THEN <<v \div 256, v % 256>> ELSE <<v % 256, v \div 256>>

ReadU16(b0, b1, endian) ==
  IF endian = "big" THEN 256 * b0 + b1 ELSE 256 * b1 + b0

CommandToBytes(p) ==
  <<p.sop1, p.sop2, p.did, p.cid, p.seq, p.dlen>> \o p.data \o <<p.chk>>

ResponseToBytes(p) ==
  <<p.sop1, p.sop2, p.mrsp, p.seq, p.dlen>> \o p.data \o <<p.chk>>

AsyncToBytes(p, endian) ==
  <<p.sop1, p.sop2, p.idcode>> \o WriteU16(p.dlen, endian) \o p.data \o <<p.chk>>

to_bytes(p, endian) ==
  CASE p.shape = "command" -> CommandToBytes(p)
    [] p.shape = "response" -> ResponseToBytes(p)
    [] p.shape = "async" -> AsyncToBytes(p, endian)

(***************************************************************************)
(* DekuUpdate: update() assigns the `update` expressions in field order,   *)
(* dlen first, then chk from the updated dlen.  The dlen expression is a   *)
(* usize converted with try_into: a value that does not fit the field is   *)
(* an Err and leaves the packet as it was.                                 *)
(***************************************************************************)
ResponseUpdate(p) ==
  LET dlen == Len(p.data) + 1
  IN  IF dlen > 255 THEN Err("Parse")
      ELSE Ok([p EXCEPT !.dlen = dlen,
                        !.chk = calculate_checksum(<<p.mrsp, p.seq, dlen>>, p.data)],
              <<>>)

AsyncUpdate(p) ==
  LET dlen == Len(p.data) + 1
  IN  IF dlen > 65535 THEN Err("Parse")
      ELSE Ok([p EXCEPT !.dlen = dlen,
                        !.chk = calculate_checksum(
                                  <<p.idcode, (dlen \div 256) % 256, dlen % 256>>, p.data)],
              <<>>)

(***************************************************************************)
(* DekuRead: from_bytes reads the fields in declaration order from offset  *)
(* 0 and returns the unread rest with the packet.  The checksum byte is    *)
(* read into chk and is not compared with anything.                        *)
(***************************************************************************)
\* reading one u8-typed field at 1-based position pos whose legal ids are ids
FieldErr(b, pos, ids) ==
  IF pos > Len(b) THEN "Incomplete"
  ELSE IF b[pos] \notin ids THEN "Parse"
  ELSE "None"

RECURSIVE FirstErr(_, _)
FirstErr(errs, i) ==
  IF i > Len(errs) THEN "None"
  ELSE IF errs[i] # "None" THEN errs[i]
  ELSE FirstErr(errs, i + 1)

\* mutant of CountOf: `count = "dlen"`
CountOf_NoMinusOne(dlen, modulus, oc) == dlen

\* `count = "dlen - 1"` evaluated in the width of dlen (modulus 256 or 65536)
CountOf(dlen, modulus, oc) ==
  IF dlen = 0 THEN (IF oc THEN -1 ELSE modulus - 1) ELSE dlen - 1

\* mutant of ReadVec: reads the bytes that are there, up to count, leaving one
\* for the checksum
ReadVec_Available(b, pos, count) ==
  LET avail == IF Len(b) - pos > 0 THEN Len(b) - pos ELSE 0
  IN  IF avail < count THEN avail ELSE count

\* Vec<u8> read of `count` elements from 1-based position pos: the number of
\* bytes read, or -1 when the buffer holds fewer (Incomplete)
ReadVec(b, pos, count) ==
  IF Len(b) - (pos - 1) < count THEN -1 ELSE count

CommandFromBytes(b, oc) ==
  LET herr == FirstErr(<<FieldErr(b, 1, SOP1Field), FieldErr(b, 2, SOP2Field),
                         FieldErr(b, 3, DeviceID), FieldErr(b, 4, U8),
                         FieldErr(b, 5, U8), FieldErr(b, 6, U8)>>, 1)
  IN  IF herr # "None" THEN Err(herr)
      ELSE LET count == CountOf(b[6], 256, oc)
               n == ReadVec(b, 7, count)
           IN  IF count = -1 THEN Panic
               ELSE IF n = -1 THEN Err("Incomplete")
               ELSE IF FieldErr(b, 7 + n, U8) # "None" THEN Err("Incomplete")
               ELSE Ok([shape |-> "command", sop1 |-> b[1], sop2 |-> b[2],
                        did |-> b[3], cid |-> b[4], seq |-> b[5], dlen |-> b[6],
                        data |-> SubSeq(b, 7, 6 + n),
                        chk |-> b[7 + n]],
                       SubSeq(b, 8 + n, Len(b)))

ResponseFromBytes(b, oc) ==
  LET herr == FirstErr(<<FieldErr(b, 1, SOP1Field), FieldErr(b, 2, SOP2Field),
                         FieldErr(b, 3, MRSPField), FieldErr(b, 4, U8),
                         FieldErr(b, 5, U8)>>, 1)
  IN  IF herr # "None" THEN Err(herr)
      ELSE LET count == CountOf(b[5], 256, oc)
               n == ReadVec(b, 6, count)
           IN  IF count = -1 THEN Panic
               ELSE IF n = -1 THEN Err("Incomplete")
               ELSE IF FieldErr(b, 6 + n, U8) # "None" THEN Err("Incomplete")
               ELSE Ok([shape |-> "response", sop1 |-> b[1], sop2 |-> b[2],
                        mrsp |-> b[3], seq |-> b[4], dlen |-> b[5],
                        data |-> SubSeq(b, 6, 5 + n),
                        chk |-> b[6 + n]],
                       SubSeq(b, 7 + n, Len(b)))

AsyncFromBytes(b, oc, endian) ==
  LET herr == FirstErr(<<FieldErr(b, 1, SOP1Field), FieldErr(b, 2, SOP2Field),
                         FieldErr(b, 3, U8), FieldErr(b, 5, U8)>>, 1)
  IN  IF herr # "None" THEN Err(herr)
      ELSE LET dlen == ReadU16(b[4], b[5], endian)
               count == CountOf(dlen, 65536, oc)
               n == ReadVec(b, 6, count)
           IN  IF count = -1 THEN Panic
               ELSE IF n = -1 THEN Err("Incomplete")
               ELSE IF FieldErr(b, 6 + n, U8) # "None" THEN Err("Incomplete")
               ELSE Ok([shape |-> "async", sop1 |-> b[1], sop2 |-> b[2],
                        idcode |-> b[3], dlen |-> dlen,
                        data |-> SubSeq(b, 6, 5 + n),
                        chk |-> b[6 + n]],
                       SubSeq(b, 7 + n, Len(b)))

(***************************************************************************)
(* The notification loop body of the example: both decoders run on the     *)
(* received bytes, the response is printed if it parsed, else the async    *)
(* packet if it parsed, else the async decoder's error.                    *)
(***************************************************************************)
NotificationOutcome(data, oc, endian) ==
  LET response == ResponseFromBytes(data, oc)
      response_async == AsyncFromBytes(data, oc, endian)
  IN  IF response = Panic \/ response_async = Panic THEN Panic
      ELSE IF response.tag = "Ok"
        THEN [tag |-> "Printed", shape |-> "response", pkt |-> response.pkt]
      ELSE IF response_async.tag = "Ok"
        THEN [tag |-> "Printed", shape |-> "async", pkt |-> response_async.pkt]
      ELSE [tag |-> "Printed", shape |-> "error", kind |-> response_async.kind]

(***************************************************************************)
(* Command builders: to_packet(seq) of each operation.                     *)
(***************************************************************************)
\* `b as u8` of a bool
BoolAsU8(b) == IF b THEN 1 ELSE 0

\* u16::to_be_bytes and u32::to_be_bytes.  A u32 is held as its two 16-bit
\* halves [hi, lo], its value being 65536 * hi + lo: the model checker's
\* integers are 32-bit signed and cannot hold 0xFFFFFFFF.
\* mutant of U16ToBeBytes: low byte first
U16ToBeBytes_LowFirst(v) == <<v % 256, (v \div 256) % 256>>
U16ToBeBytes(v) == <<(v \div 256) % 256, v % 256>>
U32ToBeBytes(v) == U16ToBeBytes(v.hi) \o U16ToBeBytes(v.lo)

Ping_to_packet(c, seq, oc) ==
  SpheroCommandPacketV1_new(DeviceID_Core, CoreCommandID_Ping, seq, <<>>, oc)

GetVersioning_to_packet(c, seq, oc) ==
  SpheroCommandPacketV1_new(DeviceID_Core, CoreCommandID_GetVersioningInformation,
                            seq, <<>>, oc)

GetBluetoothInfo_to_packet(c, seq, oc) ==
  SpheroCommandPacketV1_new(DeviceID_Core, CoreCommandID_GetBluetoothInfo, seq, <<>>, oc)

SetRGBLEDOutput_to_packet(c, seq, oc) ==
  SpheroCommandPacketV1_new(DeviceID_Sphero, SpheroCommandID_SetRGBLEDOutput, seq,
                            <<c.red, c.green, c.blue, BoolAsU8(c.flag)>>, oc)

SetBackLEDOutput_to_packet(c, seq, oc) ==
  SpheroCommandPacketV1_new(DeviceID_Sphero, SpheroCommandID_SetBackLEDOutput, seq,
                            <<c.brightness>>, oc)

Roll_to_packet(c, seq, oc) ==
  SpheroCommandPacketV1_new(DeviceID_Sphero, SpheroCommandID_Roll, seq,
                            <<c.speed, (c.heading \div 256) % 256, c.heading % 256,
                              BoolAsU8(c.state)>>, oc)

SetDataStreaming_to_packet(c, seq, oc) ==
  LET nbs == U16ToBeBytes(c.n)
      mbs == U16ToBeBytes(c.m)
      m1bs == U32ToBeBytes(c.mask1)
  IN  IF c.mask2.some
        THEN SpheroCommandPacketV1_new(
               DeviceID_Sphero, SpheroCommandID_SetDataStreaming, seq,
               nbs \o mbs \o m1bs \o <<c.pcnt>> \o U32ToBeBytes(c.mask2.value), oc)
        ELSE SpheroCommandPacketV1_new(
               DeviceID_Sphero, SpheroCommandID_SetDataStreaming, seq,
               nbs \o mbs \o m1bs \o <<c.pcnt>>, oc)

(***************************************************************************)
(* Inputs.                                                                 *)
(***************************************************************************)
\* payloads handed to SpheroCommandPacketV1::new: short ones, and the lengths
\* around the capacity of the one-byte data-length field
NewPayloads == ShortPayloads \cup {LongPayload(n) : n \in {254, 255, 256}}
\* payloads of response packets: short ones and the two largest lengths
ResponsePayloads == ShortPayloads \cup {LongPayload(n) : n \in {254, 255}}
\* payloads of async packets: short ones and lengths whose dlen needs two bytes
AsyncPayloads == ShortPayloads \cup {LongPayload(n) : n \in {255, 256}}

SampleDeviceID == {DeviceID_Core, DeviceID_Bootloader, DeviceID_Sphero}
SampleStatus == {0, 9, 53}
SampleSOP2 == {SOP2_Response, SOP2_Async}
SampleHeadings == {0, 1, 255, 256, 359, 360, 65535}
SampleU16 == {2, 258}
\* 0x01020304, 0xFFFFFFFF
SampleU32 == {[hi |-> 258, lo |-> 772], [hi |-> 65535, lo |-> 65535]}
\* None, Some(0), Some(0x0A0B0C0D)
SampleMask2 == {[some |-> FALSE, value |-> [hi |-> 0, lo |-> 0]],
                [some |-> TRUE, value |-> [hi |-> 0, lo |-> 0]],
                [some |-> TRUE, value |-> [hi |-> 2571, lo |-> 3085]]}

\* x with bit k inverted
FlipBit(x, k) ==
  LET w == 2 ^ k IN IF (x \div w) % 2 = 1 THEN x - w ELSE x + w

\* bytes 3..5 of inbound buffers: documented and undocumented status codes
\* (also read as id-code), a sequence byte or high length byte, a length byte
InboundB3 == {0, 10, 53, 255}
InboundB4 == {0, 1}
InboundB5 == 0..MaxDlen
InboundBodyLens == (0..MaxShortBody) \cup {256, 257}

\* the bytes after the header: n - 1 payload bytes and a last byte that is the
\* checksum of bytes 3.. or that checksum with one bit inverted (every bit for
\* the short bodies, the lowest bit for the long ones)
InboundBodies(hdr, n) ==
  IF n = 0 THEN {<<>>}
  ELSE LET data == LongPayload(n - 1)
           chk == calculate_checksum(hdr, data)
           bits == IF n <= MaxShortBody THEN 0..7 ELSE {0}
       IN  {Append(data, c) : c \in {chk} \cup {FlipBit(chk, k) : k \in bits}}

\* frames that start with the two markers of a known shape
MarkedBuffers ==
  UNION {{<<SOP1_All, b2, b3, b4, b5>> \o body : body \in InboundBodies(<<b3, b4, b5>>, n)} :
           b2 \in SampleSOP2, b3 \in InboundB3, b4 \in InboundB4, b5 \in InboundB5,
           n \in InboundBodyLens}

\* frames whose markers match no shape, otherwise well formed
UnmarkedBuffers ==
  {<<m[1], m[2], 0, 0, n>> \o LongPayload(n - 1) \o
     <<calculate_checksum(<<0, 0, n>>, LongPayload(n - 1))>> :
       m \in {<<255, 0>>, <<255, 253>>, <<0, 255>>, <<254, 255>>, <<254, 254>>},
       n \in 1..MaxShortBody}

\* buffers cut inside the header
ShortBuffers ==
  {SubSeq(<<SOP1_All, b2, 0, 0, 1>>, 1, n) : b2 \in SampleSOP2 \cup {0}, n \in 0..4}

InboundBuffers == MarkedBuffers \cup UnmarkedBuffers \cup ShortBuffers

(***************************************************************************)
(* Initial state and actions.                                              *)
(***************************************************************************)
Init ==
  /\ target_endian \in {"little", "big"}
  /\ overflow_checks \in BOOLEAN
  /\ arg = NoArg
  /\ pkt = NoPacket
  /\ wire = <<>>
  /\ res = NoResult
  /\ op = "init"

\* a caller invokes SpheroCommandPacketV1::new
CommandNew ==
  \E did \in SampleDeviceID, sid \in SampleBytes, seq \in SampleSeqs, data \in NewPayloads :
    /\ op = "init"
    /\ arg' = [cmd |-> "new", did |-> did, sid |-> sid, seq |-> seq, data |-> data]
    /\ pkt' = SpheroCommandPacketV1_new(did, sid, seq, data, overflow_checks)
    /\ res' = NoResult
    /\ op' = "new"
    /\ UNCHANGED <<build, wire>>

\* a caller invokes to_packet(seq) on a builder value c
Built(c, seq, p) ==
  /\ op = "init"
  /\ arg' = [cmd |-> c.cmd, c |-> c, seq |-> seq]
  /\ pkt' = p
  /\ res' = NoResult
  /\ op' = "to_packet"
  /\ UNCHANGED <<build, wire>>

PingToPacket ==
  \E seq \in SampleSeqs :
    LET c == [cmd |-> "Ping"]
    IN  Built(c, seq, Ping_to_packet(c, seq, overflow_checks))

GetVersioningToPacket ==
  \E seq \in SampleSeqs :
    LET c == [cmd |-> "GetVersioning"]
    IN  Built(c, seq, GetVersioning_to_packet(c, seq, overflow_checks))

GetBluetoothInfoToPacket ==
  \E seq \in SampleSeqs :
    LET c == [cmd |-> "GetBluetoothInfo"]
    IN  Built(c, seq, GetBluetoothInfo_to_packet(c, seq, overflow_checks))

SetRGBLEDOutputToPacket ==
  \E seq \in SampleSeqs, red \in SampleBytes, green \in SampleBytes,
     blue \in SampleBytes, flag \in BOOLEAN :
    LET c == [cmd |-> "SetRGBLEDOutput", red |-> red, green |-> green,
              blue |-> blue, flag |-> flag]
    IN  Built(c, seq, SetRGBLEDOutput_to_packet(c, seq, overflow_checks))

SetBackLEDOutputToPacket ==
  \E seq \in SampleSeqs, brightness \in SampleBytes :
    LET c == [cmd |-> "SetBackLEDOutput", brightness |-> brightness]
    IN  Built(c, seq, SetBackLEDOutput_to_packet(c, seq, overflow_checks))

RollToPacket ==
  \E seq \in SampleSeqs, speed \in SampleBytes, heading \in SampleHeadings,
     state \in BOOLEAN :
    LET c == [cmd |-> "Roll", speed |-> speed, heading |-> heading, state |-> state]
    IN  Built(c, seq, Roll_to_packet(c, seq, overflow_checks))

SetDataStreamingToPacket ==
  \E seq \in SampleSeqs, n \in SampleU16, m \in SampleU16, mask1 \in SampleU32,
     pcnt \in {0, 1}, mask2 \in SampleMask2 :
    LET c == [cmd |-> "SetDataStreaming", n |-> n, m |-> m, mask1 |-> mask1,
              pcnt |-> pcnt, mask2 |-> mask2]
    IN  Built(c, seq, SetDataStreaming_to_packet(c, seq, overflow_checks))

\* a response packet value is given its fields and update() derives dlen and chk
BuildResponse ==
  \E sop2 \in SampleSOP2, mrsp \in SampleStatus, seq \in SampleSeqs,
     data \in ResponsePayloads :
    LET p == [shape |-> "response", sop1 |-> SOP1_All, sop2 |-> sop2, mrsp |-> mrsp,
              seq |-> seq, dlen |-> 0, data |-> data, chk |-> 0]
        r == ResponseUpdate(p)
    IN  /\ op = "init"
        /\ arg' = [cmd |-> "response", data |-> data]
        /\ pkt' = IF r.tag = "Ok" THEN r.pkt ELSE p
        /\ res' = IF r.tag = "Ok" THEN Ok(r.pkt, <<>>) ELSE r
        /\ op' = "update"
        /\ UNCHANGED <<build, wire>>

\* an async packet value is given its fields and update() derives dlen and chk
BuildAsync ==
  \E sop2 \in SampleSOP2, idcode \in SampleBytes, data \in AsyncPayloads :
    LET p == [shape |-> "async", sop1 |-> SOP1_All, sop2 |-> sop2, idcode |-> idcode,
              dlen |-> 0, data |-> data, chk |-> 0]
        r == AsyncUpdate(p)
    IN  /\ op = "init"
        /\ arg' = [cmd |-> "async", data |-> data]
        /\ pkt' = IF r.tag = "Ok" THEN r.pkt ELSE p
        /\ res' = IF r.tag = "Ok" THEN Ok(r.pkt, <<>>) ELSE r
        /\ op' = "update"
        /\ UNCHANGED <<build, wire>>

\* to_bytes() of the current packet
Serialize ==
  /\ op \in {"new", "to_packet", "update"}
  /\ pkt.shape \in {"command", "response", "async"}
  /\ wire' = to_bytes(pkt, target_endian)
  /\ res' = NoResult
  /\ op' = "to_bytes"
  /\ UNCHANGED <<build, arg, pkt>>

\* the notification stream yields a buffer
Receive ==
  \E data \in InboundBuffers :
    /\ op = "init"
    /\ wire' = data
    /\ arg' = NoArg
    /\ pkt' = NoPacket
    /\ res' = NoResult
    /\ op' = "receive"
    /\ UNCHANGED build

Decoded(name, r) ==
  /\ op \in {"to_bytes", "receive"}
  /\ res' = r
  /\ op' = name
  /\ UNCHANGED <<build, arg, pkt, wire>>

DecodeCommand ==
  Decoded("command_from_bytes", CommandFromBytes(wire, overflow_checks))

DecodeResponse ==
  Decoded("response_from_bytes", ResponseFromBytes(wire, overflow_checks))

DecodeAsync ==
  Decoded("async_from_bytes", AsyncFromBytes(wire, overflow_checks, target_endian))

\* the notification loop body runs on the received buffer
NotificationDecode ==
  /\ op = "receive"
  /\ res' = NotificationOutcome(wire, overflow_checks, target_endian)
  /\ op' = "notification"
  /\ UNCHANGED <<build, arg, pkt, wire>>

\* byte sequences handed to calculate_checksum, and the places they are split
\* into `fields` and `data`
ChecksumInputs == ShortPayloads \cup {LongPayload(n) : n \in {255, 256}}
SplitPoints(s) == (0..Len(s)) \cap ((0..MaxShortLen) \cup {128, Len(s) - 1, Len(s)})

\* a caller invokes calculate_checksum(fields, data)
Checksum ==
  \E s \in ChecksumInputs :
    \E k \in SplitPoints(s) :
      LET fields == SubSeq(s, 1, k)
          data == SubSeq(s, k + 1, Len(s))
      IN  /\ op = "init"
          /\ arg' = [cmd |-> "checksum", fields |-> fields, data |-> data]
          /\ res' = [tag |-> "Value", value |-> calculate_checksum(fields, data)]
          /\ op' = "calculate_checksum"
          /\ UNCHANGED <<build, pkt, wire>>

(***************************************************************************)
(* Error::from(u8).  A value of the Error enum is its variant name, with   *)
(* the carried byte for Unused.                                            *)
(***************************************************************************)
Named(variant) == [variant |-> variant]
Unused(code) == [variant |-> "Unused", code |-> code]

\* mutant of Error_from: the last arm, 0x0A, is missing
Error_from_NoTargetUnavailable(code) ==
  CASE code = 1 -> Named("BadDeviceId")
    [] code = 2 -> Named("BadCommandId")
    [] code = 3 -> Named("NotImplemented")
    [] code = 4 -> Named("CommandRestricted")
    [] code = 5 -> Named("BadDataLength")
    [] code = 6 -> Named("CommandFailed")
    [] code = 7 -> Named("BadParameterValue")
    [] code = 8 -> Named("Busy")
    [] code = 9 -> Named("BadTargetId")
    [] OTHER -> Unused(code)

Error_from(code) ==
  CASE code = 1 -> Named("BadDeviceId")
    [] code = 2 -> Named("BadCommandId")
    [] code = 3 -> Named("NotImplemented")
    [] code = 4 -> Named("CommandRestricted")
    [] code = 5 -> Named("BadDataLength")
    [] code = 6 -> Named("CommandFailed")
    [] code = 7 -> Named("BadParameterValue")
    [] code = 8 -> Named("Busy")
    [] code = 9 -> Named("BadTargetId")
    [] code = 10 -> Named("TargetUnavailable")
    [] OTHER -> Unused(code)

\* a caller converts a status byte with Error::from
ErrorFrom ==
  \E code \in U8 :
    /\ op = "init"
    /\ arg' = [cmd |-> "error_from", code |-> code]
    /\ res' = [tag |-> "Error", err |-> Error_from(code)]
    /\ op' = "error_from"
    /\ UNCHANGED <<build, pkt, wire>>

\* the caller is done with the values of one call chain and starts another
Return ==
  /\ op # "init"
  /\ arg' = NoArg
  /\ pkt' = NoPacket
  /\ wire' = <<>>
  /\ res' = NoResult
  /\ op' = "init"
  /\ UNCHANGED build

Next ==
  \/ CommandNew
  \/ PingToPacket
  \/ GetVersioningToPacket
  \/ GetBluetoothInfoToPacket
  \/ SetRGBLEDOutputToPacket
  \/ SetBackLEDOutputToPacket
  \/ RollToPacket
  \/ SetDataStreamingToPacket
  \/ BuildResponse
  \/ BuildAsync
  \/ Serialize
  \/ Receive
  \/ DecodeCommand
  \/ DecodeResponse
  \/ DecodeAsync
  \/ NotificationDecode
  \/ Checksum
  \/ ErrorFrom
  \/ Return

Spec == Init /\ [][Next]_vars

(***************************************************************************)
(* Vocabulary of the properties, stated on the wire layout                 *)
(*   FF FF <mrsp> <seq> <dlen> <payload[dlen-1]> <chk>      (response)     *)
(*   FF FE <idcode> <dlen_hi> <dlen_lo> <payload[dlen-1]> <chk>  (async)   *)
(* independently of the codec's operators.                                 *)
(***************************************************************************)
\* the arithmetic sum of the bytes s[lo..hi]
RECURSIVE ByteSum(_, _, _)
ByteSum(s, lo, hi) ==
  IF lo > hi THEN 0
  ELSE IF lo = hi THEN s[lo]
  ELSE LET mid == (lo + hi) \div 2
           left == ByteSum(s, lo, mid)
       IN  IF left < 0 THEN left ELSE left + ByteSum(s, mid + 1, hi)

\* NOT((sum of bytes from..to of b) mod 256)
ExpectedChk(b, from, to) == 255 - (ByteSum(b, from, to) % 256)

\* the data-length a buffer of at least five bytes declares, per shape
ResponseDlen(b) == b[5]
AsyncDlen(b) == 256 * b[4] + b[5]

\* a complete frame of declared length dlen >= 1: header, payload, checksum
FrameOf(b, sop2, dlen) ==
  /\ Len(b) >= 5
  /\ b[1] = 255
  /\ b[2] = sop2
  /\ dlen >= 1
  /\ Len(b) = 5 + dlen

ResponseFrame(b) ==
  /\ Len(b) >= 5
  /\ FrameOf(b, 255, ResponseDlen(b))
  /\ b[3] \in {0} \cup (1..9) \cup (49..53)

AsyncFrame(b) ==
  /\ Len(b) >= 5
  /\ FrameOf(b, 254, AsyncDlen(b))

ChkCorrect(b) == b[Len(b)] = ExpectedChk(b, 3, Len(b) - 1)

\* the last byte is the correct checksum with exactly one bit inverted
ChkOneBitOff(b) ==
  \E k \in 0..7 : b[Len(b)] = FlipBit(ExpectedChk(b, 3, Len(b) - 1), k)

(***************************************************************************)
(* C1.  Decoding a response or async frame verifies the checksum: a frame  *)
(* that is well formed except that its last byte differs from              *)
(* NOT(sum of bytes 3.. mod 256) is never decoded successfully.            *)
(* The decoders read the checksum byte and compare it with nothing, so     *)
(* this statement is violated.                                             *)
(***************************************************************************)
C1_ChecksumVerified ==
  /\ (op = "response_from_bytes" /\ ResponseFrame(wire) /\ ~ChkCorrect(wire))
        => res.tag = "Err"
  /\ (op = "async_from_bytes" /\ AsyncFrame(wire) /\ ~ChkCorrect(wire))
        => res.tag = "Err"

(***************************************************************************)
(* C3.  A response frame whose status byte is not a documented code        *)
(* decodes successfully and the packet carries the raw status byte.        *)
(* MRSPField has no catch-all variant, so this statement is violated.      *)
(***************************************************************************)
C3_UnknownStatusDecodes ==
  (/\ op = "response_from_bytes"
   /\ Len(wire) >= 5
   /\ FrameOf(wire, 255, ResponseDlen(wire))
   /\ wire[3] \notin {0} \cup (1..9) \cup (49..53)
   /\ ChkCorrect(wire))
    => (res.tag = "Ok" /\ res.pkt.mrsp = wire[3])

(***************************************************************************)
(* C4.  A buffer is only ever decoded as the shape its second marker byte  *)
(* designates: the response decoder never accepts FF FE .., the async      *)
(* decoder never accepts FF FF .., and the notification loop prints a      *)
(* response only for FF FF and an async packet only for FF FE.             *)
(* Both packet structs take either SOP2Field variant, so this statement    *)
(* is violated.                                                            *)
(***************************************************************************)
C4_ShapeFollowsMarker ==
  /\ (op = "response_from_bytes" /\ res.tag = "Ok") => wire[2] = 255
  /\ (op = "async_from_bytes" /\ res.tag = "Ok") => wire[2] = 254
  /\ (op = "notification" /\ res.tag = "Printed" /\ res.shape = "response")
        => wire[2] = 255
  /\ (op = "notification" /\ res.tag = "Printed" /\ res.shape = "async")
        => wire[2] = 254

(***************************************************************************)
(* C5.  SpheroCommandPacketV1::new with a payload of 255 or more bytes     *)
(* reports BadDataLength: it does not abort and does not return a packet   *)
(* whose data-length differs from len(payload) + 1.                        *)
(* new returns Self and computes `data.len() as u8 + 1`, so this statement *)
(* is violated.                                                            *)
(***************************************************************************)
C5_OversizePayloadReported ==
  (op = "new" /\ Len(arg.data) >= 255)
    => /\ pkt # Aborted
       /\ pkt.shape = "command" => pkt.dlen = Len(pkt.data) + 1
       /\ pkt = [shape |-> "error", kind |-> "BadDataLength"]

(***************************************************************************)
(* C2.  For every device id, command id, sequence byte and payload of      *)
(* length 0..254, new followed by to_bytes yields FF FF did cid seq        *)
(* len+1, the payload, and NOT(sum of did, cid, seq, len+1 and the payload *)
(* bytes mod 256); Sphero/0x20/seq 1/payload FF 00 00 00 yields            *)
(* FF FF 02 20 01 05 FF 00 00 00 D8.                                       *)
(***************************************************************************)
C2_CommandBytes ==
  /\ (op = "new" /\ Len(arg.data) <= 254) => pkt.shape = "command"
  /\ (op = "to_bytes" /\ arg.cmd = "new" /\ Len(arg.data) <= 254)
        => LET head == <<arg.did, arg.sid, arg.seq, Len(arg.data) + 1>>
               sum == ByteSum(head, 1, 4) + ByteSum(arg.data, 1, Len(arg.data))
           IN  wire = <<255, 255>> \o head \o arg.data \o <<255 - (sum % 256)>>
  /\ (/\ op = "to_bytes"
      /\ arg.cmd = "SetRGBLEDOutput"
      /\ arg.seq = 1
      /\ arg.c = [cmd |-> "SetRGBLEDOutput", red |-> 255, green |-> 0, blue |-> 0,
                  flag |-> FALSE])
        => wire = <<255, 255, 2, 32, 1, 5, 255, 0, 0, 0, 216>>

\* a 254-byte payload, the longest the data-length byte can count, was serialized
C2_Witness ==
  /\ op = "to_bytes"
  /\ arg.cmd = "new"
  /\ Len(arg.data) = 254
  /\ Len(wire) = 261
  /\ wire[6] = 255

(***************************************************************************)
(* C6.  Round trip: a command, response or async packet whose data-length  *)
(* and checksum are derived from its fields, serialized and decoded again  *)
(* by the decoder of its shape, comes back equal in every field with no    *)
(* byte left over.                                                         *)
(***************************************************************************)
C6_RoundTrip ==
  \A shape \in {"command", "response", "async"} :
    (/\ op = shape \o "_from_bytes"
     /\ pkt.shape = shape
     /\ pkt.dlen = Len(pkt.data) + 1)
      => res = Ok(pkt, <<>>)

\* an async packet whose data-length needs both bytes made the round trip
C6_Witness ==
  /\ op = "async_from_bytes"
  /\ pkt.shape = "async"
  /\ pkt.dlen = 257
  /\ Len(wire) = 262
  /\ res.tag = "Ok"
  /\ res.pkt = pkt

(***************************************************************************)
(* C7.  The async decoder reads the data-length big-endian: a buffer       *)
(* FF FE id hi lo .. that holds at least the 256*hi + lo - 1 payload bytes *)
(* and the checksum byte decodes, for every id byte, to a packet with      *)
(* data-length 256*hi + lo, that many minus one payload bytes and the      *)
(* byte after them as checksum.                                            *)
(* dlen carries no endian attribute and is read in the target's byte       *)
(* order, so on a little-endian target this statement is violated.         *)
(***************************************************************************)
C7_AsyncLengthBigEndian ==
  (/\ op = "async_from_bytes"
   /\ Len(wire) >= 5
   /\ wire[1] = 255
   /\ wire[2] = 254
   /\ AsyncDlen(wire) >= 1
   /\ Len(wire) >= 5 + AsyncDlen(wire))
    => /\ res.tag = "Ok"
       /\ res.pkt.idcode = wire[3]
       /\ res.pkt.dlen = AsyncDlen(wire)
       /\ res.pkt.data = SubSeq(wire, 6, 4 + AsyncDlen(wire))
       /\ res.pkt.chk = wire[5 + AsyncDlen(wire)]

(***************************************************************************)
(* C8.  to_packet(seq) of every builder returns a command packet with      *)
(* sequence byte seq, the catalog's device and command id, and the         *)
(* payload of the table: empty for the Core operations; red, green, blue,  *)
(* flag; brightness; speed, heading high, heading low, state; N, M         *)
(* (big-endian u16), mask1 (big-endian u32), packet count and, only when   *)
(* present, mask2 (big-endian u32).                                        *)
(***************************************************************************)
Bit(b) == IF b THEN 1 ELSE 0
Be16(v) == <<v \div 256, v % 256>>
Be32(v) == Be16(v.hi) \o Be16(v.lo)

CatalogDevice(cmd) ==
  IF cmd \in {"Ping", "GetVersioning", "GetBluetoothInfo"} THEN 0 ELSE 2

CatalogCommand(cmd) ==
  CASE cmd = "Ping" -> 1
    [] cmd = "GetVersioning" -> 2
    [] cmd = "GetBluetoothInfo" -> 17
    [] cmd = "SetRGBLEDOutput" -> 32
    [] cmd = "SetBackLEDOutput" -> 33
    [] cmd = "Roll" -> 48
    [] cmd = "SetDataStreaming" -> 17

CatalogPayload(c) ==
  CASE c.cmd \in {"Ping", "GetVersioning", "GetBluetoothInfo"} -> <<>>
    [] c.cmd = "SetRGBLEDOutput" -> <<c.red, c.green, c.blue, Bit(c.flag)>>
    [] c.cmd = "SetBackLEDOutput" -> <<c.brightness>>
    [] c.cmd = "Roll" -> <<c.speed>> \o Be16(c.heading) \o <<Bit(c.state)>>
    [] c.cmd = "SetDataStreaming" ->
         Be16(c.n) \o Be16(c.m) \o Be32(c.mask1) \o <<c.pcnt>>
           \o (IF c.mask2.some THEN Be32(c.mask2.value) ELSE <<>>)

C8_BuilderPackets ==
  op = "to_packet"
    => /\ pkt.shape = "command"
       /\ pkt.seq = arg.seq
       /\ pkt.did = CatalogDevice(arg.cmd)
       /\ pkt.cid = CatalogCommand(arg.cmd)
       /\ pkt.data = CatalogPayload(arg.c)
       /\ arg.cmd = "SetDataStreaming"
            => Len(pkt.data) = (IF arg.c.mask2.some THEN 13 ELSE 9)

\* a data-streaming command with a second mask was built: 13 payload bytes
C8_Witness ==
  /\ op = "to_packet"
  /\ arg.cmd = "SetDataStreaming"
  /\ arg.c.mask2.some
  /\ arg.c.n = 258
  /\ pkt.data = <<1, 2, 1, 2, 1, 2, 3, 4, 1, 10, 11, 12, 13>>

(***************************************************************************)
(* C9.  A truncated response buffer - fewer bytes than the 5 header bytes, *)
(* the data-length - 1 payload bytes and the checksum byte its             *)
(* data-length field declares - fails to decode.                           *)
(***************************************************************************)
Truncated(b) == Len(b) < 5 \/ Len(b) < 5 + (ResponseDlen(b) - 1) + 1

C9_TruncatedResponseFails ==
  (op = "response_from_bytes" /\ Truncated(wire)) => res.tag = "Err"

\* a response frame that lacks only its checksum byte was refused
C9_Witness ==
  /\ op = "response_from_bytes"
  /\ Len(wire) >= 6
  /\ wire[1] = 255 /\ wire[2] = 255 /\ wire[3] = 0
  /\ ResponseDlen(wire) >= 2
  /\ Len(wire) = 5 + ResponseDlen(wire) - 1
  /\ res = Err("Incomplete")

(***************************************************************************)
(* C10.  A buffer whose first byte is not FF or whose second byte is       *)
(* neither FF nor FE is refused by the response decoder and by the async   *)
(* decoder, and the notification loop prints no packet for it.             *)
(***************************************************************************)
BadMarkers(b) ==
  \/ Len(b) >= 1 /\ b[1] # 255
  \/ Len(b) >= 2 /\ b[2] \notin {255, 254}

C10_BadMarkersRefused ==
  /\ (op \in {"response_from_bytes", "async_from_bytes"} /\ BadMarkers(wire))
        => res.tag = "Err"
  /\ (op = "notification" /\ BadMarkers(wire))
        => (res.tag = "Printed" /\ res.shape = "error")

\* the notification loop printed an error for an otherwise complete frame
\* whose second marker is neither FF nor FE
C10_Witness ==
  /\ op = "notification"
  /\ Len(wire) = 6
  /\ wire[1] = 255
  /\ wire[2] = 253
  /\ wire[5] = 1
  /\ res = [tag |-> "Printed", shape |-> "error", kind |-> "Parse"]

(***************************************************************************)
(* C11.  A builder given an out-of-range field surfaces BadParameterValue: *)
(* Roll.to_packet with a heading outside 0..359 returns no command packet  *)
(* that carries that heading.                                              *)
(* to_packet returns a packet and validates nothing, so this statement is  *)
(* violated.                                                               *)
(***************************************************************************)
C11_RollHeadingValidated ==
  (op = "to_packet" /\ arg.cmd = "Roll" /\ arg.c.heading \notin 0..359)
    => /\ pkt = [shape |-> "error", kind |-> "BadParameterValue"]
       /\ ~(/\ pkt.shape = "command"
            /\ Len(pkt.data) = 4
            /\ 256 * pkt.data[2] + pkt.data[3] = arg.c.heading)

(***************************************************************************)
(* C12.  calculate_checksum is total and depends only on the               *)
(* concatenation of its arguments: the result is a byte, it equals         *)
(* 255 - ((sum of all bytes) mod 256), and it is the same for every way    *)
(* of splitting fields ++ data into the two arguments.                     *)
(***************************************************************************)
C12_ChecksumOfConcatenation ==
  op = "calculate_checksum"
    => LET all == arg.fields \o arg.data
       IN  /\ res.tag = "Value"
           /\ res.value \in 0..255
           /\ res.value = 255 - (ByteSum(all, 1, Len(all)) % 256)
           /\ \A k \in 0..Len(all) :
                calculate_checksum(SubSeq(all, 1, k), SubSeq(all, k + 1, Len(all)))
                  = res.value

\* the checksum of 256 bytes whose sum exceeds 255, split in the middle
C12_Witness ==
  /\ op = "calculate_checksum"
  /\ Len(arg.fields) = 128
  /\ Len(arg.data) = 128
  /\ ByteSum(arg.fields \o arg.data, 1, 256) > 255
  /\ res.tag = "Value"

(***************************************************************************)
(* C13.  Decoding a command, response or async buffer whose data-length    *)
(* field is 0 returns a decode error as an ordinary value: the count       *)
(* data-length - 1 neither aborts the decoder nor wraps into a successful  *)
(* parse with a non-empty payload.                                         *)
(* `dlen - 1` is evaluated in the width of dlen: with overflow checks it   *)
(* panics, without them it wraps to 255 (65535), so this statement is      *)
(* violated.                                                               *)
(***************************************************************************)
C13_ZeroLengthIsError ==
  /\ (op = "command_from_bytes" /\ Len(wire) >= 6 /\ wire[6] = 0)
        => res.tag = "Err"
  /\ (op = "response_from_bytes" /\ Len(wire) >= 5 /\ ResponseDlen(wire) = 0)
        => res.tag = "Err"
  /\ (op = "async_from_bytes" /\ Len(wire) >= 5 /\ AsyncDlen(wire) = 0)
        => res.tag = "Err"

(***************************************************************************)
(* C14.  Error::from(u8) is total and lossless: codes 0x01..0x0A map to    *)
(* BadDeviceId, BadCommandId, NotImplemented, CommandRestricted,           *)
(* BadDataLength, CommandFailed, BadParameterValue, Busy, BadTargetId,     *)
(* TargetUnavailable in that order, every other byte c (0x00 included)     *)
(* maps to Unused(c), no code maps to InvalidPacket, and no other byte     *)
(* maps to the same value.                                                 *)
(***************************************************************************)
ErrorNames ==
  <<"BadDeviceId", "BadCommandId", "NotImplemented", "CommandRestricted",
    "BadDataLength", "CommandFailed", "BadParameterValue", "Busy", "BadTargetId",
    "TargetUnavailable">>

C14_ErrorFromLossless ==
  op = "error_from"
    => /\ res.tag = "Error"
       /\ arg.code \in 1..10 => res.err = [variant |-> ErrorNames[arg.code]]
       /\ arg.code \notin 1..10 => res.err = [variant |-> "Unused", code |-> arg.code]
       /\ res.err.variant # "InvalidPacket"
       /\ \A other \in 0..255 : other # arg.code => Error_from(other) # res.err

\* the last named code, 0x0A, was converted
C14_Witness ==
  /\ op = "error_from"
  /\ arg.code = 10
  /\ res.err = [variant |-> "TargetUnavailable"]

====
